---- MODULE Spec2Model ----
(***************************************************************************)
(* Model of the research pipeline of app/agent.py with its collaborators   *)
(* app/search_tool.py, app/extractor.py and app/db.py.                      *)
(*                                                                         *)
(* Python values are modelled as follows.                                  *)
(*   - A str used for matching (a URL) is a sequence of tokens; a          *)
(*     substring is a contiguous run of tokens.  Other strings are TLA+    *)
(*     strings.                                                            *)
(*   - A value that may be None is a record with a BOOLEAN field "none".   *)
(*   - A dict is a function whose DOMAIN is its set of keys.               *)
(*   - A call that raises yields a record with raised = TRUE.              *)
(* print() calls are logging and have no modelled effect.  The locals of   *)
(* a frame (the loop variables of fetch_url, the fetched triple and the    *)
(* extracted text of one result) are cleared once nothing reads them       *)
(* again.                                                                  *)
(***************************************************************************)
EXTENDS Integers, Sequences, FiniteSets, TLC

(***************************************************************************)
(* Bounds of the model (not program constants).                            *)
(***************************************************************************)
\* longest organic_results list the search service answers with
MaxItems == 4
\* most chunks one streamed response body is delivered in
MaxChunks == 2

(***************************************************************************)
(* Strings                                                                 *)
(***************************************************************************)
\* str.lower() on one token
LowerTok(tok) ==
    CASE tok = "HTTPS://" -> "https://"
      [] tok = "YouTube" -> "youtube"
      [] tok = ".COM" -> ".com"
      [] tok = ".PNG" -> ".png"
      [] tok = "Application/" -> "application/"
      [] tok = "PDF" -> "pdf"
      [] tok = "Title:" -> "title:"
      [] tok = "Summary:" -> "summary:"
      [] tok = "SUMMARY:" -> "summary:"
      [] tok = "Key points:" -> "key points:"
      [] tok = "Key Points:" -> "key points:"
      [] tok = "References:" -> "references:"
      [] OTHER -> tok

\* str.lower()
str_lower(s) == [k \in 1..Len(s) |-> LowerTok(s[k])]

\* Python "sub in s" for strings
str_contains(s, sub) ==
    \E k \in 0..(Len(s) - Len(sub)) : \A j \in 1..Len(sub) : s[k + j] = sub[j]

\* Python s[:n]
PySlice(s, n) == SubSeq(s, 1, IF Len(s) < n THEN Len(s) ELSE n)

\* Python s.replace(tok, "")
RECURSIVE str_remove(_, _)
str_remove(s, tok) ==
    IF s = <<>> THEN <<>>
    ELSE IF Head(s) = tok THEN str_remove(Tail(s), tok)
    ELSE <<Head(s)>> \o str_remove(Tail(s), tok)

\* Python s.lstrip(chars)
RECURSIVE str_lstrip(_, _)
str_lstrip(s, chars) ==
    IF s # <<>> /\ Head(s) \in chars THEN str_lstrip(Tail(s), chars) ELSE s

\* Python s.rstrip(chars)
RECURSIVE str_rstrip(_, _)
str_rstrip(s, chars) ==
    IF s # <<>> /\ s[Len(s)] \in chars THEN str_rstrip(SubSeq(s, 1, Len(s) - 1), chars) ELSE s

\* Python s.strip(): whitespace off both ends
Whitespace == { " ", "\n" }
toks_strip(s) == str_rstrip(str_lstrip(s, Whitespace), Whitespace)

\* Python s.split("\n")
RECURSIVE str_split_lines(_, _)
str_split_lines(s, line) ==
    IF s = <<>> THEN <<line>>
    ELSE IF Head(s) = "\n" THEN <<line>> \o str_split_lines(Tail(s), <<>>)
    ELSE str_split_lines(Tail(s), Append(line, Head(s)))

\* Python s.startswith(prefix)
str_startswith(s, prefix) ==
    /\ Len(s) >= Len(prefix)
    /\ \A j \in 1..Len(prefix) : s[j] = prefix[j]

(***************************************************************************)
(* JSON values of the search answer                                        *)
(***************************************************************************)
JNull == [type |-> "null", toks |-> <<>>, len |-> 0, items |-> <<>>]
JMissing == [type |-> "missing", toks |-> <<>>, len |-> 0, items |-> <<>>]
JNum == [type |-> "num", toks |-> <<>>, len |-> 0, items |-> <<>>]
JStr(toks) == [type |-> "str", toks |-> toks, len |-> Len(toks), items |-> <<>>]
\* a title of a search result: only its kind and its length in characters
\* matter to the pipeline
JTitle(n) == [type |-> "str", toks |-> <<>>, len |-> n, items |-> <<>>]
\* a list
JList(items) == [type |-> "list", toks |-> <<>>, len |-> Len(items), items |-> items]

\* dict.get(key) of a key that is absent gives None
DictGet(v) == IF v.type = "missing" THEN JNull ELSE v
\* dict.get(key, "") of a key that is absent gives ""
DictGetOrEmpty(v) == IF v.type = "missing" THEN JTitle(0) ELSE v
\* Python truth value
Truthy(v) == \/ v.type = "num"
             \/ v.type = "str" /\ v.len > 0
\* Python "a or b"
PyOr(a, b) == IF Truthy(a) THEN a ELSE b

(***************************************************************************)
(* URL gate: agent.is_valid_url                                            *)
(***************************************************************************)
blocked_domains ==
    { <<"youtube", ".com">>, <<"youtu", ".be">>, <<"twitter", ".com">>,
      <<"x", ".com">>, <<"facebook", ".com">>, <<"instagram", ".com">>,
      <<"linkedin", ".com">>, <<"reddit", ".com">>, <<"tiktok", ".com">> }

blocked_extensions ==
    { <<".mp4">>, <<".mp3">>, <<".jpg">>, <<".png">>, <<".gif">>, <<".zip">>, <<".exe">> }

\* mutant of is_valid_url: an extension blocks only at the end of the URL
is_valid_url_extension_at_end(url) ==
    LET url_lower == str_lower(url.toks) IN
    /\ ~\E domain \in blocked_domains : str_contains(url_lower, domain)
    /\ ~(url_lower # <<>> /\ <<url_lower[Len(url_lower)]>> \in blocked_extensions)

\* mutant of is_valid_url: the gate lets every URL through
is_valid_url_allows_all(url) == TRUE

\* url.lower() raises AttributeError on a value that is not a str
is_valid_url_raises(url) == url.type # "str"

is_valid_url(url) ==
    LET url_lower == str_lower(url.toks) IN
    IF \E domain \in blocked_domains : str_contains(url_lower, domain) THEN FALSE
    ELSE IF \E ext \in blocked_extensions : str_contains(url_lower, ext) THEN FALSE
    ELSE TRUE

(***************************************************************************)
(* Search: search_tool.serpapi_search                                      *)
(***************************************************************************)
num_results == 3

UrlPage == JStr(<<"https://", "example", ".org", "/a">>)
UrlBlocked == JStr(<<"https://", "www.", "YouTube", ".com", "/watch">>)
UrlNoScheme == JStr(<<"example", ".org", "/a">>)

Item(link, url, displayed_link, title) ==
    [link |-> link, url |-> url, displayed_link |-> displayed_link, title |-> title]

\* entries of organic_results the search service may answer with
Items ==
    { Item(UrlPage, JMissing, UrlNoScheme, JTitle(72)),
      Item(JStr(<<>>), UrlBlocked, JMissing, JTitle(20)),
      Item(JMissing, JNull, UrlNoScheme, JMissing),
      Item(JNull, JStr(<<>>), JMissing, JTitle(20)),
      Item(UrlPage, JMissing, JMissing, JNull),
      Item(JNum, JMissing, JMissing, JTitle(20)) }

RECURSIVE SeqsUpTo(_, _)
SeqsUpTo(S, n) ==
    IF n = 0 THEN { <<>> }
    ELSE LET shorter == SeqsUpTo(S, n - 1) IN
         shorter \cup { Append(s, x) : s \in { t \in shorter : Len(t) = n - 1 }, x \in S }

\* the behaviours of the search service and of the environment of the call
SearchEnvs ==
    { [key |-> FALSE, net |-> "ok", items |-> <<>>],
      [key |-> TRUE, net |-> "request_exception", items |-> <<>>],
      [key |-> TRUE, net |-> "not_a_dict", items |-> <<>>] }
    \cup { [key |-> TRUE, net |-> "ok", items |-> its] : its \in SeqsUpTo(Items, MaxItems) }

Returned(v) == [raised |-> FALSE, exc |-> "", value |-> v]
Raised(msg) == [raised |-> TRUE, exc |-> msg, value |-> <<>>]

\* the loop of lines 30-37 over the items already sliced to num_results
RECURSIVE serpapi_results(_)
serpapi_results(items) ==
    IF items = <<>> THEN <<>>
    ELSE LET item == Head(items)
             link == PyOr(PyOr(DictGet(item.link), DictGet(item.url)),
                          DictGet(item.displayed_link))
             title == DictGetOrEmpty(item.title)
             rest == serpapi_results(Tail(items))
         IN IF Truthy(link) THEN <<[title |-> title, link |-> link]>> \o rest
            ELSE rest

serpapi_search(env) ==
    IF ~env.key THEN Raised("SERPAPI_API_KEY not set in environment")
    ELSE IF env.net = "request_exception" THEN Returned(<<>>)
    ELSE IF env.net = "not_a_dict" THEN Raised("'list' object has no attribute 'get'")
    ELSE Returned(serpapi_results(PySlice(env.items, num_results)))

(***************************************************************************)
(* Content Fetcher: extractor.fetch_url                                    *)
(***************************************************************************)
timeout == 30
max_retries == 2
\* 50 * 1024 * 1024
MaxBytes == 52428800

NoBytes == [none |-> TRUE, len |-> 0]
Bytes(n) == [none |-> FALSE, len |-> n]
NoStr == [none |-> TRUE, s |-> ""]
Str(s) == [none |-> FALSE, s |-> s]
NoType == [none |-> TRUE, toks |-> <<>>]
Type(toks) == [none |-> FALSE, toks |-> toks]

\* str(e) of an exception whose text the code does not choose
ExcText == "<str(e)>"

\* the triple (content_bytes, content_type, error)
FetchError(msg) == [content |-> NoBytes, content_type |-> NoType, error |-> Str(msg)]
FetchOk(n, ctype) == [content |-> Bytes(n), content_type |-> Type(ctype), error |-> NoStr]

\* mutant of invalid_url_format: only the empty URL is turned away
invalid_url_format_empty_only(url) == url = <<>>

\* line 23: not url or not url.startswith(('http://', 'https://'))
invalid_url_format(url) ==
    \/ url = <<>>
    \/ ~(str_startswith(url, <<"http://">>) \/ str_startswith(url, <<"https://">>))

\* sizes of the chunks iter_content hands over
ChunkSizes == { 150, MaxBytes }

\* Content-Type headers of a response (absent is the empty sequence)
ContentTypes == { <<>>, <<"text/", "html">>, <<"Application/", "PDF">> }

\* Content-Length headers: absent, a decimal number, or text int() rejects
ContentLengths ==
    { [kind |-> "absent", n |-> 0], [kind |-> "number", n |-> 0],
      [kind |-> "number", n |-> MaxBytes], [kind |-> "number", n |-> MaxBytes + 1],
      [kind |-> "garbage", n |-> 0] }

\* what one session.get(...) plus the streaming of its body can do
Responses ==
    { [kind |-> k, status |-> 0, content_type |-> <<>>,
       content_length |-> [kind |-> "absent", n |-> 0], chunks |-> <<>>] :
         k \in { "timeout", "connection_error", "request_exception", "other" } }
    \cup { [kind |-> "http_error", status |-> st, content_type |-> <<>>,
            content_length |-> [kind |-> "absent", n |-> 0], chunks |-> <<>>] :
              st \in { 404 } }
    \cup { [kind |-> "ok", status |-> 200, content_type |-> ct,
            content_length |-> cl, chunks |-> ch] :
              ct \in ContentTypes, cl \in ContentLengths,
              ch \in SeqsUpTo(ChunkSizes, MaxChunks) }

\* mutant of read_chunks: the size rejection hands back what was read so far
RECURSIVE read_chunks_keep_partial(_, _, _)
read_chunks_keep_partial(content, chunks, ctype) ==
    IF chunks = <<>> THEN FetchOk(content, ctype)
    ELSE LET grown == content + Head(chunks) IN
         IF grown > MaxBytes
           THEN [content |-> Bytes(grown), content_type |-> NoType,
                 error |-> Str("Content too large during download")]
           ELSE read_chunks_keep_partial(grown, Tail(chunks), ctype)

\* lines 51-57: accumulate the chunks, abort once over the ceiling
RECURSIVE read_chunks(_, _, _)
read_chunks(content, chunks, ctype) ==
    IF chunks = <<>> THEN FetchOk(content, ctype)
    ELSE LET grown == content + Head(chunks) IN
         IF grown > MaxBytes THEN FetchError("Content too large during download")
         ELSE read_chunks(grown, Tail(chunks), ctype)

\* lines 52-55: how many chunks the loop takes from iter_content
RECURSIVE chunks_read(_, _)
chunks_read(content, chunks) ==
    IF chunks = <<>> THEN 0
    ELSE IF content + Head(chunks) > MaxBytes THEN 1
    ELSE 1 + chunks_read(content + Head(chunks), Tail(chunks))

\* mutant of declared_too_large: the Content-Length header is not looked at
declared_too_large_ignored(content_length) == FALSE

\* line 47: content_length and int(content_length) > 50 * 1024 * 1024
declared_too_large(content_length) ==
    content_length.kind = "number" /\ content_length.n > MaxBytes

\* mutant of is_transient: an HTTP status error is retried as well
is_transient_or_http(kind) == kind \in { "timeout", "connection_error", "http_error" }

\* lines 59 and 65: the exceptions whose handlers retry
is_transient(kind) == kind \in { "timeout", "connection_error" }

\* the error strings of the handlers of lines 59-78
failure_text(resp) ==
    CASE resp.kind = "timeout" ->
           "Timeout after " \o ToString(timeout) \o "s (tried "
             \o ToString(max_retries + 1) \o " times)"
      [] resp.kind = "connection_error" -> "Connection failed"
      [] resp.kind = "http_error" -> "HTTP error: " \o ToString(resp.status)
      [] resp.kind = "request_exception" -> "Request error: " \o ExcText
      [] OTHER -> "Unexpected error: " \o ExcText

\* lines 29-78: one pass of the retry loop; retry = "continue" after the
\* pause, read = the chunks of the body taken from the response
fetch_attempt(attempt, resp) ==
    IF resp.kind = "ok"
      THEN LET content_type == str_lower(resp.content_type)
               content_length == resp.content_length
           IN IF content_length.kind = "garbage"
                \* int(content_length) raises ValueError, caught at line 77
                THEN [retry |-> FALSE, read |-> 0,
                      result |-> FetchError("Unexpected error: " \o ExcText)]
              ELSE IF declared_too_large(content_length)
                THEN [retry |-> FALSE, read |-> 0,
                      result |-> FetchError("Content too large (>50MB)")]
              ELSE [retry |-> FALSE, read |-> chunks_read(0, resp.chunks),
                    result |-> read_chunks(0, resp.chunks, content_type)]
    ELSE IF is_transient(resp.kind) /\ attempt < max_retries
      THEN [retry |-> TRUE, read |-> 0, result |-> FetchError("")]
    ELSE [retry |-> FALSE, read |-> 0, result |-> FetchError(failure_text(resp))]

\* lines 28-78: the retry loop over the responses the GETs of one call meet
RECURSIVE fetch_url_loop(_, _, _)
fetch_url_loop(attempt, resps, gets) ==
    LET a == fetch_attempt(attempt, Head(resps)) IN
    IF a.retry THEN fetch_url_loop(attempt + 1, Tail(resps), gets + 1)
    ELSE [result |-> a.result, gets |-> gets + 1, read |-> a.read]

\* lines 18-78: the whole call; gets = the GET requests made
fetch_url(url, resps) ==
    IF invalid_url_format(url)
      THEN [result |-> FetchError("Invalid URL format"), gets |-> 0, read |-> 0]
      ELSE fetch_url_loop(0, resps, 0)

(***************************************************************************)
(* Text Extractor: extractor.extract_text_from_html,                       *)
(*                 extractor.extract_text_from_pdf_bytes                   *)
(* A text is known by its length, the length of its strip(), the number of *)
(* its words (runs of \w characters) and whether it holds one of the        *)
(* error-page phrases of validate_extracted_content.                       *)
(***************************************************************************)
min_text == 100
max_pages_limit == 10
max_content == 30000

NoText == [none |-> TRUE, len |-> 0, strip |-> 0, words |-> 0, indicator |-> FALSE]
TextWith(n, stripped, words, indicator) ==
    [none |-> FALSE, len |-> n, strip |-> stripped, words |-> words, indicator |-> indicator]
\* prose: a word every five characters, no error-page phrase
Text(n, stripped) == TextWith(n, stripped, stripped \div 5, FALSE)
\* text.strip()
str_strip(t) == [t EXCEPT !.len = t.strip]
\* text[:n]; cutting may leave the text ending in whitespace, never longer;
\* the words are taken as evenly spread over the text
str_cut(t, n) ==
    IF t.len <= n THEN t
    ELSE [t EXCEPT !.len = n, !.strip = IF t.strip < n THEN t.strip ELSE n,
                   !.words = (t.words * n) \div t.len]

min_words == 20

\* extractor.validate_extracted_content
validate_extracted_content(content, min_length) ==
    IF content.none \/ content.len = 0 THEN FALSE
    ELSE IF content.strip < min_length THEN FALSE
    ELSE IF content.words < min_words THEN FALSE
    ELSE IF content.indicator THEN FALSE
    ELSE TRUE

\* what trafilatura.extract can hand back: an exception, None, or a text
ExtractOutcomes ==
    { [raises |-> TRUE, text |-> NoText], [raises |-> FALSE, text |-> NoText],
      [raises |-> FALSE, text |-> Text(140, 100)], [raises |-> FALSE, text |-> Text(103, 101)],
      [raises |-> FALSE, text |-> Text(40000, 40000)],
      \* the text of an error page: "403 Forbidden ... access denied ..."
      [raises |-> FALSE, text |-> TextWith(150, 150, 24, TRUE)] }

\* what the tag-stripping pass of lines 120-129 leaves of the page
StrippedTexts == { Text(0, 0), Text(100, 100), Text(101, 101), Text(31000, 31000) }

HtmlEnvs == [primary : ExtractOutcomes, refetch : ExtractOutcomes, stripped : StrippedTexts]

extract_text_from_html(html_bytes, env) ==
    IF html_bytes.len = 0 THEN Text(0, 0)
    ELSE IF env.primary.raises THEN Text(0, 0)
    ELSE IF ~env.primary.text.none /\ env.primary.text.strip > min_text
      THEN str_strip(env.primary.text)
    ELSE IF env.refetch.raises THEN Text(0, 0)
    ELSE IF ~env.refetch.text.none /\ env.refetch.text.strip > min_text
      THEN str_strip(env.refetch.text)
    ELSE IF env.stripped.len > min_text THEN env.stripped
    ELSE Text(0, 0)

\* a page of a PDF: extract_text raises, gives None/blank, or gives text
\* whose strip() has len characters, gaps of which are runs of whitespace
PageRaises == [kind |-> "raises", len |-> 0, gaps |-> 0]
PageBlank == [kind |-> "blank", len |-> 0, gaps |-> 0]
PageText(n, gaps) == [kind |-> "text", len |-> n, gaps |-> gaps]

Pages(n, special, what) == [p \in 1..n |-> IF p \in special THEN what ELSE PageText(20, 0)]

\* the documents PdfReader is given: unparseable, or a sequence of pages
PdfDocs ==
    { [parses |-> FALSE, pages |-> <<>>],
      [parses |-> TRUE, pages |-> <<>>],
      [parses |-> TRUE, pages |-> <<PageText(100, 0)>>],
      [parses |-> TRUE, pages |-> <<PageText(50, 0), PageText(50, 0)>>],
      [parses |-> TRUE, pages |-> <<PageText(104, 4)>>],
      [parses |-> TRUE, pages |-> Pages(6, {1, 2}, PageBlank)],
      [parses |-> TRUE, pages |-> Pages(15, {4}, PageRaises)] }

\* mutant of pdf_text_parts: a page that raises ends the loop
RECURSIVE pdf_text_parts_stop_at_error(_, _, _)
pdf_text_parts_stop_at_error(pages, page_num, max_pages) ==
    IF page_num >= max_pages THEN <<>>
    ELSE LET page == pages[page_num + 1]
             rest == pdf_text_parts_stop_at_error(pages, page_num + 1, max_pages)
         IN IF page.kind = "raises" THEN <<>>
            ELSE IF page.kind = "text" /\ page.len > 0 THEN <<page>> \o rest ELSE rest

\* lines 155-165: text_parts after pages page_num..max_pages-1 (0-based)
RECURSIVE pdf_text_parts(_, _, _)
pdf_text_parts(pages, page_num, max_pages) ==
    IF page_num >= max_pages THEN <<>>
    ELSE LET page == pages[page_num + 1]
             rest == pdf_text_parts(pages, page_num + 1, max_pages)
         IN IF page.kind = "text" /\ page.len > 0 THEN <<page>> \o rest ELSE rest

RECURSIVE SumLen(_)
SumLen(parts) ==
    IF parts = <<>> THEN 0
    ELSE Head(parts).len - Head(parts).gaps + SumLen(Tail(parts))

\* lines 167-175: join with a blank line, collapse every whitespace run to
\* one space (each gap and each separator shrinks to one character), strip
pdf_join_clean(parts) ==
    IF parts = <<>> THEN Text(0, 0)
    ELSE LET n == SumLen(parts) + (Len(parts) - 1) IN Text(n, n)

extract_text_from_pdf_bytes(pdf_bytes, doc) ==
    IF pdf_bytes.len = 0 THEN Text(0, 0)
    ELSE IF ~doc.parses THEN Text(0, 0)
    ELSE IF Len(doc.pages) = 0 THEN Text(0, 0)
    ELSE LET max_pages == IF max_pages_limit < Len(doc.pages)
                            THEN max_pages_limit ELSE Len(doc.pages)
         IN pdf_join_clean(pdf_text_parts(doc.pages, 0, max_pages))

\* lines 155-158: the page numbers (0-based) page.extract_text() is called on
RECURSIVE pdf_pages_read(_, _, _)
pdf_pages_read(pages, page_num, max_pages) ==
    IF page_num >= max_pages THEN <<>>
    ELSE <<page_num>> \o pdf_pages_read(pages, page_num + 1, max_pages)

\* lines 141-158: the pages one call of extract_text_from_pdf_bytes reads
pdf_pages_attempted(pdf_bytes, doc) ==
    IF pdf_bytes.len = 0 THEN <<>>
    ELSE IF ~doc.parses THEN <<>>
    ELSE IF Len(doc.pages) = 0 THEN <<>>
    ELSE LET max_pages == IF max_pages_limit < Len(doc.pages)
                            THEN max_pages_limit ELSE Len(doc.pages)
         IN pdf_pages_read(doc.pages, 0, max_pages)

(***************************************************************************)
(* Report Synthesizer: agent.get_openai_client, summarize_with_openai,     *)
(* create_fallback_summary, parse_text_response                            *)
(***************************************************************************)
\* the module global client is None, False (construction failed) or a client
get_openai_client(client, key, construct_ok) ==
    LET after == IF client = "None" /\ key
                   THEN (IF construct_ok THEN "Client" ELSE "False")
                   ELSE client
    IN [client |-> after, handle |-> IF after # "False" THEN after ELSE "None"]

per_source_cap == 3000
prompt_budget == 12000

\* mutant of max_content_per_source: the division rounds up
max_content_per_source_rounded_up(n) ==
    LET m == IF n > 1 THEN n ELSE 1
        d == (prompt_budget + m - 1) \div m
    IN IF per_source_cap < d THEN per_source_cap ELSE d

\* line 36
max_content_per_source(n) ==
    LET d == prompt_budget \div (IF n > 1 THEN n ELSE 1)
    IN IF per_source_cap < d THEN per_source_cap ELSE d

required_fields == <<"title", "summary", "key_points", "references">>

Report(title, summary, key_points, references, raw) ==
    [title |-> title, summary |-> summary, key_points |-> key_points,
     references |-> references, raw_prompt_response |-> raw]

NoReport == Report(JNull, JNull, JNull, JNull, JNull)

\* line 105: the title, cut to 60 characters plus "..." when longer
reference_note(title) ==
    IF title.len > 60 THEN [title EXCEPT !.len = 60 + 3, !.toks = <<"...">>] ELSE title

\* mutant of create_fallback_summary: only the first source is referenced
create_fallback_summary_first_only(sources, query) ==
    Report(
        JStr(<<"Research Report: ", query>>),
        JStr(<<"Found ", ToString(Len(sources)), " sources">>),
        JList(<< <<"Successfully searched for: ", query>> >>),
        JList([k \in 1..(IF Len(sources) > 0 THEN 1 ELSE 0) |->
                 [url |-> sources[k].url, note |-> reference_note(sources[k].title)]]),
        JStr(<<"Fallback summary generated without OpenAI">>))

create_fallback_summary(sources, query) ==
    Report(
        JStr(<<"Research Report: ", query>>),
        JStr(<<"Found ", ToString(Len(sources)), " sources related to '", query,
               "'. This report was generated using content extraction and analysis of web sources.">>),
        JList(PySlice(
            << <<"Successfully searched for: ", query>>,
               <<"Retrieved ", ToString(Len(sources)), " relevant sources">>,
               <<"Content extracted from web pages">>,
               IF Len(sources) > 1 THEN <<"Sources include academic and news articles">>
                                   ELSE <<"Single source analyzed">>,
               <<"Data compiled from recent web content">> >>, 5)),
        JList([k \in 1..Len(sources) |->
                 [url |-> sources[k].url, note |-> reference_note(sources[k].title)]]),
        JStr(<<"Fallback summary generated without OpenAI">>))

\* the token standing for the bullet character U+2022
BulletChar == "U+2022"

\* lines 120-139: one pass of the loop over the lines; st holds the locals
parse_line(st, raw_line) ==
    LET line == toks_strip(raw_line)
        lower == str_lower(line)
    IN IF line = <<>> THEN st
       ELSE IF str_contains(lower, <<"title:">>) \/ str_startswith(line, <<"#">>)
         THEN [st EXCEPT !.title = toks_strip(str_remove(str_remove(line, "Title:"), "#"))]
       ELSE IF str_contains(lower, <<"summary:">>)
         THEN [st EXCEPT !.current_section = "summary",
                         !.summary = toks_strip(str_remove(line, "Summary:"))]
       ELSE IF str_contains(lower, <<"key points:">>) \/ str_contains(lower, <<"key_points:">>)
         THEN [st EXCEPT !.current_section = "key_points"]
       ELSE IF str_contains(lower, <<"references:">>)
         THEN [st EXCEPT !.current_section = "references"]
       ELSE IF st.current_section = "summary" /\ st.summary # <<>>
         THEN [st EXCEPT !.summary = st.summary \o <<" ">> \o line]
       ELSE IF st.current_section = "key_points"
               /\ (str_startswith(line, <<"-">>) \/ str_startswith(line, <<BulletChar>>))
         THEN [st EXCEPT !.key_points =
                 Append(st.key_points, str_lstrip(line, {"-", BulletChar, " "}))]
       ELSE IF st.current_section = "references"
               /\ (str_startswith(line, <<"-">>) \/ str_startswith(line, <<BulletChar>>))
         THEN [st EXCEPT !.references =
                 Append(st.references,
                        [url |-> JStr(<<"N/A">>),
                         note |-> JStr(str_lstrip(line, {"-", BulletChar, " "}))])]
       ELSE st

RECURSIVE parse_lines(_, _)
parse_lines(st, lines) ==
    IF lines = <<>> THEN st ELSE parse_lines(parse_line(st, Head(lines)), Tail(lines))

parse_text_response(raw_response, query) ==
    LET st == parse_lines([title |-> <<"Research Report: ", query>>, summary |-> <<>>,
                           key_points |-> <<>>, references |-> <<>>,
                           current_section |-> "None"],
                          str_split_lines(raw_response, <<>>))
    IN Report(
         JStr(IF st.title # <<>> THEN st.title ELSE <<"Research Report: ", query>>),
         JStr(IF st.summary # <<>> THEN st.summary
              ELSE <<"Summary not available from parsed response">>),
         JList(IF st.key_points # <<>> THEN st.key_points
               ELSE << <<"No key points extracted from response">> >>),
         JList(st.references),
         JStr(raw_response))

\* what json.loads makes of a reply: a JSONDecodeError ("invalid"), or a
\* value; has = the required field names that "field in value" finds (keys
\* of an object, elements of an array, substrings of a string)
Json(kind, has, obj) == [kind |-> kind, has |-> has, obj |-> obj]
NotJson == Json("invalid", {}, <<>>)

AllFields == { required_fields[k] : k \in 1..Len(required_fields) }

ObjFull ==
    [title |-> JStr(<<"AI today">>), summary |-> JStr(<<"Short">>),
     key_points |-> JList(<< <<"p1">>, <<"p2">> >>),
     references |-> JList(<< [url |-> UrlPage, note |-> JStr(<<"r1">>)] >>)]
ObjHollow ==
    [title |-> JStr(<<>>), summary |-> JNull, key_points |-> JList(<<>>),
     references |-> JList(<<>>)]
ObjPartial == [title |-> JStr(<<"AI today">>), summary |-> JStr(<<"Short">>)]

TextReply ==
    <<"\n", "Title:", " ", "AI today", "\n", "Summary:", " ", "Short", "\n", "more", "\n",
      "\n", "Key Points:", "\n", "-", " ", "p1", "\n", BulletChar, "p2", "\n",
      "References:", "\n", "-", " ", "r1", "\n">>

\* the replies of the model service: message.content and its JSON reading
Replies ==
    { [content_none |-> TRUE, content |-> <<>>, json |-> NotJson],
      [content_none |-> FALSE, content |-> <<" ">>, json |-> NotJson],
      [content_none |-> FALSE, content |-> <<"no structure here">>, json |-> NotJson],
      [content_none |-> FALSE, content |-> TextReply, json |-> NotJson],
      [content_none |-> FALSE, content |-> <<"{full object}">>,
       json |-> Json("object", DOMAIN ObjFull, ObjFull)],
      [content_none |-> FALSE, content |-> <<"{hollow object}">>,
       json |-> Json("object", DOMAIN ObjHollow, ObjHollow)],
      [content_none |-> FALSE, content |-> <<"{partial object}">>,
       json |-> Json("object", DOMAIN ObjPartial, ObjPartial)],
      [content_none |-> FALSE, content |-> <<"[1, 2]">>, json |-> Json("array", {}, <<>>)],
      [content_none |-> FALSE, content |-> <<"[the four field names]">>,
       json |-> Json("array", AllFields, <<>>)],
      [content_none |-> FALSE, content |-> <<"\"a string naming the four fields\"">>,
       json |-> Json("string", AllFields, <<>>)],
      [content_none |-> FALSE, content |-> <<"42">>, json |-> Json("scalar", {}, <<>>)] }

\* the model service during one call of summarize_with_openai
ModelEnvs ==
    { [construct_ok |-> c, call_raises |-> TRUE,
       reply |-> [content_none |-> TRUE, content |-> <<>>, json |-> NotJson]] :
         c \in BOOLEAN }
    \cup { [construct_ok |-> TRUE, call_raises |-> FALSE, reply |-> r] : r \in Replies }

\* what the model service was seen to do in one call of summarize_with_openai:
\* no client to call ("unavailable"), the call raised, or it replied
NoReply == [content_none |-> TRUE, content |-> <<>>, json |-> NotJson]
NoModel == [status |-> "none", reply |-> NoReply]
model_seen(handle, env) ==
    IF handle = "None" THEN [status |-> "unavailable", reply |-> NoReply]
    ELSE IF env.call_raises THEN [status |-> "raised", reply |-> NoReply]
    ELSE [status |-> "replied", reply |-> env.reply]

SynthReturn(report, path) == [raised |-> FALSE, exc |-> "", report |-> report, path |-> path]
SynthRaise(msg) == [raised |-> TRUE, exc |-> msg, report |-> NoReport, path |-> "raise"]

\* lines 52-84: the body of the try statement
summarize_try_body(query, env) ==
    IF env.call_raises THEN SynthRaise("APIError")
    ELSE IF env.reply.content_none
      THEN SynthRaise("'NoneType' object has no attribute 'strip'")
    ELSE LET raw_response == toks_strip(env.reply.content)
             report_data == env.reply.json
         IN IF report_data.kind = "invalid"
              THEN SynthReturn(parse_text_response(raw_response, query), "text")
            ELSE IF report_data.kind = "scalar"
              THEN SynthRaise("argument of type 'int' is not iterable")
            ELSE IF \A k \in 1..Len(required_fields) : required_fields[k] \in report_data.has
              THEN IF report_data.kind = "object"
                     THEN SynthReturn(Report(report_data.obj.title, report_data.obj.summary,
                                             report_data.obj.key_points,
                                             report_data.obj.references,
                                             JStr(raw_response)), "json")
                     ELSE SynthRaise("indices must be integers")
            ELSE SynthReturn(parse_text_response(raw_response, query), "text")

\* mutant of summarize_try: the handler catches json.JSONDecodeError only
summarize_try_json_only(sources, query, env) == summarize_try_body(query, env)

\* lines 52-88: the try statement with its handler "except Exception"
summarize_try(sources, query, env) ==
    LET r == summarize_try_body(query, env)
    IN IF r.raised THEN SynthReturn(create_fallback_summary(sources, query), "fallback")
       ELSE r

\* lines 45-48: the prompt holds at most the budget of every source
prompt_content_chars(sources) ==
    LET cap == max_content_per_source(Len(sources))
        cut[k \in 0..Len(sources)] ==
            IF k = 0 THEN 0 ELSE cut[k - 1] + str_cut(sources[k].content, cap).len
    IN cut[Len(sources)]

\* the returned value or exception, and the module global client afterwards
summarize_with_openai(sources, query, client, key, env) ==
    LET c == get_openai_client(client, key, env.construct_ok)
        r == IF c.handle = "None"
               THEN SynthReturn(create_fallback_summary(sources, query), "fallback")
               ELSE summarize_try(sources, query, env)
    IN [client |-> c.client, result |-> r]

(***************************************************************************)
(* Persistence: db.save_report on the table                                *)
(*   reports (id INTEGER PRIMARY KEY AUTOINCREMENT, ...)                   *)
(***************************************************************************)
\* store_ok = FALSE: connect, INSERT or commit raises inside the try
save_report(rows, last_id, store_ok) ==
    IF store_ok
      THEN [rows |-> rows \cup { last_id + 1 }, last_id |-> last_id + 1,
            report_id |-> last_id + 1]
      ELSE [rows |-> rows, last_id |-> last_id, report_id |-> -1]

(***************************************************************************)
(* Pipeline Orchestrator: one call of agent.run_agent_for_query            *)
(***************************************************************************)
VARIABLES
    OPENAI_KEY,        \* agent.OPENAI_KEY is set (truthy)
    client,            \* agent.client: "None", "False" or "Client"
    rows,              \* ids of the rows of table reports
    last_id,           \* AUTOINCREMENT counter of table reports
    query,             \* the argument of run_agent_for_query
    pc,                \* where the call stands
    search_results,    \* list returned by serpapi_search
    i,                 \* index of enumerate(search_results, 1); 0 before the loop
    sources,
    skipped_sources,
    attempt,           \* loop variable of fetch_url
    fetched,           \* (content_bytes, content_type, error) of the current result
    content_text,      \* extracted text of the current result
    synth,             \* what summarize_with_openai did in this run
    ret,               \* "none" while running, "returned" or "raised" at the end
    outcome,           \* the returned dict, or the exception that reached the caller
    hist,              \* record of the calls made so far in this run
    unit,              \* a direct call of one function: its arguments and its result
    workers            \* the worker threads of the web layer, one run each

vars == <<OPENAI_KEY, client, rows, last_id, query, pc, search_results, i, sources,
          skipped_sources, attempt, fetched, content_text, synth, ret, outcome, hist,
          unit, workers>>

Queries == { "ai news" }

NoneId == [none |-> TRUE, id |-> 0]
Id(n) == [none |-> FALSE, id |-> n]

NoFetch == [content |-> NoBytes, content_type |-> NoType, error |-> NoStr]
NoSynth == [called |-> FALSE, raised |-> FALSE, exc |-> "", report |-> NoReport,
            path |-> "none", model |-> NoModel]

\* no function is called directly
NoUnit == [fn |-> "none", done |-> FALSE]

\* the module state after import and the locals of a call that has just begun
InitPipeline ==
    /\ OPENAI_KEY \in BOOLEAN
    /\ client = "None"
    /\ rows = {}
    /\ last_id = 0
    /\ query \in Queries
    /\ pc = "search"
    /\ search_results = <<>>
    /\ i = 0
    /\ sources = <<>>
    /\ skipped_sources = <<>>
    /\ attempt = 0
    /\ fetched = NoFetch
    /\ content_text = Text(0, 0)
    /\ synth = NoSynth
    /\ ret = "none"
    /\ outcome = <<>>
    /\ hist = [search |-> 0, search_status |-> "none", fetch_url |-> 0, gets |-> <<>>, sleeps |-> 0,
               extract |-> 0, summarize |-> 0, save |-> 0, save_failed |-> FALSE,
               raised_at |-> {}, loop_done |-> FALSE]

\* one call of run_agent_for_query, nothing else running
Init ==
    /\ InitPipeline
    /\ unit = NoUnit
    /\ workers = <<>>

\* the current result of the loop
result == search_results[i]

Skipped(url, title, reason) == [url |-> url, title |-> title, reason |-> reason]

\* an exception raised while result k was processed, and the step it came from
RaisedAt(k, step) == [index |-> k, step |-> step]

\* "return d": the call ends with the dict d
Return(d) ==
    /\ outcome' = d
    /\ ret' = "returned"
    /\ pc' = "done"

\* an exception that no handler of run_agent_for_query catches
Propagate(msg) ==
    /\ outcome' = [exception |-> msg]
    /\ ret' = "raised"
    /\ pc' = "done"

\* mutant of no_results: the test is "search_results is None"
no_results_is_none(results) == FALSE

\* line 160: not search_results
no_results(results) == results = <<>>

\* mutant of no_sources: the test is "sources is None"
no_sources_is_none(srcs) == FALSE

\* line 237: not sources
no_sources(srcs) == srcs = <<>>

\* the dicts run_agent_for_query returns
\* lines 169-173
outcome_search_failed(msg) ==
    [success |-> FALSE, error |-> "Search failed: " \o msg, report_id |-> NoneId]
\* lines 161-165
outcome_no_results ==
    [success |-> FALSE, error |-> "No search results found", report_id |-> NoneId]
\* mutant of outcome_no_content: the dict lacks the error
outcome_no_content_without_error(skipped) ==
    [success |-> FALSE, skipped_sources |-> skipped, report_id |-> NoneId]

\* lines 238-243
outcome_no_content(skipped) ==
    [success |-> FALSE, error |-> "No content could be extracted from any source",
     skipped_sources |-> skipped, report_id |-> NoneId]
\* lines 254-260
outcome_summarize_failed(msg, srcs, skipped) ==
    [success |-> FALSE, error |-> "Summarization failed: " \o msg,
     sources_found |-> Len(srcs), skipped_sources |-> skipped, report_id |-> NoneId]
\* lines 283-289
outcome_saved(report_id, srcs, skipped) ==
    [success |-> TRUE, report_id |-> Id(report_id), sources_found |-> Len(srcs),
     skipped_sources |-> skipped, processing_time |-> "round(elapsed, 2)"]

\* lines 156-173
Search ==
    /\ pc = "search"
    /\ \E env \in SearchEnvs :
         LET r == serpapi_search(env) IN
         /\ hist' = [hist EXCEPT !.search = @ + 1,
                                 !.search_status = IF r.raised THEN "raised"
                                                   ELSE IF r.value = <<>> THEN "empty"
                                                   ELSE "results"]
         /\ IF r.raised
              THEN /\ Return(outcome_search_failed(r.exc))
                   /\ UNCHANGED search_results
            ELSE IF no_results(r.value)
              THEN /\ Return(outcome_no_results)
                   /\ search_results' = r.value
            ELSE /\ search_results' = r.value
                 /\ pc' = "loop"
                 /\ UNCHANGED <<ret, outcome>>
    /\ UNCHANGED <<unit, workers, OPENAI_KEY, client, rows, last_id, query, i, sources, skipped_sources,
                   attempt, fetched, content_text, synth>>

\* lines 180-192: take the next result, log its title, apply the URL gate
NextResult ==
    /\ pc = "loop"
    /\ i < Len(search_results)
    /\ i' = i + 1
    /\ LET url == search_results[i + 1].link
           title == search_results[i + 1].title
       IN IF title.type # "str"
            \* line 183: title[:50] of None
            THEN /\ Propagate("'NoneType' object is not subscriptable")
                 /\ hist' = [hist EXCEPT !.raised_at = @ \cup { RaisedAt(i + 1, "log") }]
                 /\ UNCHANGED skipped_sources
          ELSE IF is_valid_url_raises(url)
            \* line 186 via line 313
            THEN /\ Propagate("object has no attribute 'lower'")
                 /\ hist' = [hist EXCEPT !.raised_at = @ \cup { RaisedAt(i + 1, "gate") }]
                 /\ UNCHANGED skipped_sources
          ELSE IF ~is_valid_url(url)
            THEN /\ skipped_sources' =
                      Append(skipped_sources, Skipped(url, title, <<"Blocked domain">>))
                 /\ UNCHANGED <<pc, ret, outcome, hist>>
          ELSE /\ pc' = "fetch"
               /\ UNCHANGED <<skipped_sources, ret, outcome, hist>>
    /\ UNCHANGED <<unit, workers, OPENAI_KEY, client, rows, last_id, query, search_results, sources,
                   attempt, fetched, content_text, synth>>

\* mutant of ProcessingError: the handler logs the error and records nothing
ProcessingError_silent(msg) ==
    /\ skipped_sources' = skipped_sources
    /\ pc' = "loop"

\* lines 229-235: the handler of the try statement of the loop body
ProcessingError(msg) ==
    /\ skipped_sources' =
         Append(skipped_sources,
                Skipped(result.link, result.title, <<"Processing error: ", msg>>))
    /\ pc' = "loop"

\* line 195 into lines 23-28 of fetch_url: the scheme check, or an
\* exception that escapes the callee
FetchCall ==
    /\ pc = "fetch"
    /\ \E escapes \in BOOLEAN :
         IF escapes
           THEN /\ ProcessingError(ExcText)
                /\ hist' = [hist EXCEPT !.fetch_url = @ + 1,
                                        !.raised_at = @ \cup { RaisedAt(i, "fetch") }]
                /\ UNCHANGED <<attempt, fetched>>
         ELSE IF invalid_url_format(result.link.toks)
           THEN /\ fetched' = FetchError("Invalid URL format")
                /\ pc' = "fetched"
                /\ hist' = [hist EXCEPT !.fetch_url = @ + 1]
                /\ UNCHANGED <<attempt, skipped_sources>>
         ELSE /\ attempt' = 0
              /\ pc' = "get"
              /\ hist' = [hist EXCEPT !.fetch_url = @ + 1]
              /\ UNCHANGED <<fetched, skipped_sources>>
    /\ UNCHANGED <<unit, workers, OPENAI_KEY, client, rows, last_id, query, search_results, i, sources,
                   content_text, synth, ret, outcome>>

\* lines 28-78 of fetch_url: one GET attempt
GetAttempt ==
    /\ pc = "get"
    /\ \E resp \in Responses :
         LET a == fetch_attempt(attempt, resp) IN
         IF a.retry
           THEN /\ attempt' = attempt + 1
                /\ hist' = [hist EXCEPT !.gets = Append(@, resp.kind), !.sleeps = @ + 1]
                /\ UNCHANGED <<pc, fetched>>
           ELSE /\ fetched' = a.result
                /\ pc' = "fetched"
                /\ hist' = [hist EXCEPT !.gets = Append(@, resp.kind)]
                /\ UNCHANGED attempt
    /\ UNCHANGED <<unit, workers, OPENAI_KEY, client, rows, last_id, query, search_results, i, sources,
                   skipped_sources, content_text, synth, ret, outcome>>

\* lines 197-203
CheckFetch ==
    /\ pc = "fetched"
    /\ IF ~fetched.error.none /\ fetched.error.s # ""
         THEN /\ skipped_sources' =
                   Append(skipped_sources,
                          Skipped(result.link, result.title,
                                  <<"Fetch error: ", fetched.error.s>>))
              /\ fetched' = NoFetch
              /\ pc' = "loop"
         ELSE /\ pc' = "extract"
              /\ UNCHANGED <<skipped_sources, fetched>>
    /\ attempt' = 0
    /\ hist' = [hist EXCEPT !.gets = <<>>, !.sleeps = 0]
    /\ UNCHANGED <<unit, workers, OPENAI_KEY, client, rows, last_id, query, search_results, i, sources,
                   content_text, synth, ret, outcome>>

\* line 207
is_pdf(content_type) == content_type.toks # <<>> /\ str_contains(content_type.toks, <<"pdf">>)

\* lines 205-210: the extractor chosen by content type, or an exception
\* that escapes it
Extract ==
    /\ pc = "extract"
    /\ \E escapes \in BOOLEAN :
         IF escapes
           THEN /\ ProcessingError(ExcText)
                /\ hist' = [hist EXCEPT !.extract = @ + 1, !.raised_at = @ \cup { RaisedAt(i, "extract") }]
                /\ content_text' = Text(0, 0)
                /\ fetched' = NoFetch
           ELSE /\ IF is_pdf(fetched.content_type)
                     THEN \E doc \in PdfDocs :
                            content_text' = extract_text_from_pdf_bytes(fetched.content, doc)
                     ELSE \E env \in HtmlEnvs :
                            content_text' = extract_text_from_html(fetched.content, env)
                /\ fetched' = NoFetch
                /\ pc' = "accept"
                /\ hist' = [hist EXCEPT !.extract = @ + 1]
                /\ UNCHANGED skipped_sources
    /\ UNCHANGED <<unit, workers, OPENAI_KEY, client, rows, last_id, query, search_results, i, sources,
                   attempt, synth, ret, outcome>>


\* line 212
enough_text(text) == text.len > 0 /\ text.strip > min_text

\* lines 212-227
Accept ==
    /\ pc = "accept"
    /\ IF enough_text(content_text)
         THEN /\ sources' = Append(sources, [url |-> result.link, title |-> result.title,
                                             content |-> str_cut(content_text, max_content)])
              /\ UNCHANGED skipped_sources
         ELSE /\ skipped_sources' =
                   Append(skipped_sources,
                          Skipped(result.link, result.title, <<"Insufficient content extracted">>))
              /\ UNCHANGED sources
    /\ content_text' = Text(0, 0)
    /\ pc' = "loop"
    /\ UNCHANGED <<unit, workers, OPENAI_KEY, client, rows, last_id, query, search_results, i, attempt,
                   fetched, synth, ret, outcome, hist>>

\* mutant of LoopExit: the loop may be left before its last result
LoopExit_early ==
    /\ pc = "loop"
    /\ i <= Len(search_results)
    /\ hist' = [hist EXCEPT !.loop_done = TRUE]
    /\ IF no_sources(sources)
         THEN Return(outcome_no_content(skipped_sources))
         ELSE /\ pc' = "summarize"
              /\ UNCHANGED <<ret, outcome>>
    /\ UNCHANGED <<unit, workers, OPENAI_KEY, client, rows, last_id, query, search_results, i,
                   sources, skipped_sources, attempt, fetched, content_text, synth>>

\* lines 237-245: the loop is over
LoopExit ==
    /\ pc = "loop"
    /\ i = Len(search_results)
    /\ hist' = [hist EXCEPT !.loop_done = TRUE]
    /\ IF no_sources(sources)
         THEN Return(outcome_no_content(skipped_sources))
         ELSE /\ pc' = "summarize"
              /\ UNCHANGED <<ret, outcome>>
    /\ UNCHANGED <<unit, workers, OPENAI_KEY, client, rows, last_id, query, search_results, i, sources,
                   skipped_sources, attempt, fetched, content_text, synth>>

\* lines 247-260
Summarize ==
    /\ pc = "summarize"
    /\ \E env \in ModelEnvs :
         LET s == summarize_with_openai(sources, query, client, OPENAI_KEY, env) IN
         /\ client' = s.client
         /\ synth' = [called |-> TRUE, raised |-> s.result.raised, exc |-> s.result.exc,
                      report |-> s.result.report, path |-> s.result.path,
                      model |-> model_seen(
                          get_openai_client(client, OPENAI_KEY, env.construct_ok).handle,
                          env)]
         /\ IF s.result.raised
              THEN Return(outcome_summarize_failed(s.result.exc, sources, skipped_sources))
              ELSE /\ pc' = "save"
                   /\ UNCHANGED <<ret, outcome>>
    /\ hist' = [hist EXCEPT !.summarize = @ + 1]
    /\ UNCHANGED <<unit, workers, OPENAI_KEY, rows, last_id, query, search_results, i, sources,
                   skipped_sources, attempt, fetched, content_text>>

\* lines 262-299; save_report catches what the store raises and returns -1,
\* so the handler of lines 291-299 is never entered from it
Save ==
    /\ pc = "save"
    /\ \E store_ok \in BOOLEAN :
         LET saved == save_report(rows, last_id, store_ok) IN
         /\ rows' = saved.rows
         /\ last_id' = saved.last_id
         /\ hist' = [hist EXCEPT !.save = @ + 1, !.save_failed = ~store_ok]
         /\ Return(outcome_saved(saved.report_id, sources, skipped_sources))
    /\ UNCHANGED <<unit, workers, OPENAI_KEY, client, query, search_results, i, sources, skipped_sources,
                   attempt, fetched, content_text, synth>>

Next ==
    \/ Search
    \/ NextResult
    \/ FetchCall
    \/ GetAttempt
    \/ CheckFetch
    \/ Extract
    \/ Accept
    \/ LoopExit
    \/ Summarize
    \/ Save

Spec == Init /\ [][Next]_vars

\* the thread that runs run_agent_for_query keeps running: no step of the
\* function waits for anything but a network call, and those return or time out
FairSpec == Spec /\ WF_vars(Next)

(***************************************************************************)
(* Direct calls: one function of the program is called once with           *)
(* arguments drawn from bounded sets, the rest of the program at rest.     *)
(***************************************************************************)
\* largest number of sources max_content_per_source is asked about
MaxSourceCount == 120
\* longest source list summarize_with_openai is called with
MaxSourceList == 3
\* longest URL, in tokens, is_valid_url is called with
MaxUrlLen == 3
\* most chunks of a body fetch_url is called against
MaxBodyChunks == 3
\* most pages of a document extract_text_from_pdf_bytes is called with
MaxPdfPages == 12
\* most lines of a reply parse_text_response is called with
MaxReplyLines == 3

UnitCall(fn, arg) == [fn |-> fn, done |-> FALSE, arg |-> arg, out |-> <<>>]

\* URLs handed to fetch_url
FetchUrls ==
    { <<>>, <<"example", ".org", "/a">>, <<"ftp://", "example", ".org">>,
      <<"HTTPS://", "example", ".org">>, <<"www.", "https://", "example", ".org">>,
      <<"http://", "example", ".org">>, <<"https://", "example", ".org", "/a">> }

\* responses whose body comes in up to MaxBodyChunks chunks
BodyResponses ==
    { r \in Responses : r.kind # "ok" }
    \cup { [kind |-> "ok", status |-> 200, content_type |-> <<"text/", "html">>,
            content_length |-> cl, chunks |-> ch] :
              cl \in ContentLengths, ch \in SeqsUpTo(ChunkSizes, MaxBodyChunks) }

TransientResponses == { r \in Responses : is_transient(r.kind) }

\* the responses the GETs of one call meet: up to max_retries transient
\* failures, then the response that ends the call
ResponseRuns ==
    { run \in { Append(before, r) :
                   before \in SeqsUpTo(TransientResponses, max_retries),
                   r \in BodyResponses } :
        is_transient(run[Len(run)].kind) => Len(run) = max_retries + 1 }

\* titles and contents of the sources summarize_with_openai is called with
UnitSources ==
    { [url |-> UrlPage, title |-> JTitle(n), content |-> Text(200, 200)] : n \in { 60, 61 } }

\* URLs handed to is_valid_url
GateTokens ==
    { "https://", "example", "YouTube", "x", ".com", ".COM", ".org", ".PNG", ".zip", "/a" }
GateUrls == { JStr(u) : u \in SeqsUpTo(GateTokens, MaxUrlLen) }

\* documents handed to extract_text_from_pdf_bytes: those of PdfDocs, and
\* documents of 1 to MaxPdfPages pages, some of them raising or blank
UnitPdfDocs ==
    PdfDocs
    \cup { [parses |-> TRUE, pages |-> Pages(n, special, what)] :
              n \in 1..MaxPdfPages,
              special \in { {}, {1}, {4}, {10}, {11}, {4, 10, 11}, 1..MaxPdfPages },
              what \in { PageRaises, PageBlank } }

\* lines of a reply of the model: headers, bullets with "-" and with the
\* bullet character, bullets whose text holds a header word, plain text
ReplyLines ==
    { <<"Key points:">>, <<"References:">>, <<"Summary:", " ", "Short">>,
      <<"-", " ", "p1">>, <<" ", BulletChar, "p2", " ">>,
      <<"-", " ", "Job ", "title:", " engineer">>,
      <<"-", " ", "In ", "summary:", " costs fell">>,
      <<"more">>, <<>> }

\* "\n".join(lines)
RECURSIVE join_lines(_)
join_lines(lines) ==
    IF lines = <<>> THEN <<>>
    ELSE IF Len(lines) = 1 THEN Head(lines)
    ELSE Head(lines) \o <<"\n">> \o join_lines(Tail(lines))

UnitCalls ==
    { UnitCall("max_content_per_source", n) : n \in 0..MaxSourceCount }
    \cup { UnitCall("is_valid_url", u) : u \in GateUrls }
    \cup { UnitCall("fetch_url", [url |-> u, resps |-> rs]) :
              u \in FetchUrls, rs \in ResponseRuns }
    \cup { UnitCall("summarize_with_openai", [sources |-> srcs, env |-> env]) :
              srcs \in SeqsUpTo(UnitSources, MaxSourceList), env \in ModelEnvs }
    \cup { UnitCall("extract_text_from_html", [html_bytes |-> b, env |-> env]) :
              b \in { Bytes(0), Bytes(500) }, env \in HtmlEnvs }
    \cup { UnitCall("extract_text_from_pdf_bytes", [pdf_bytes |-> b, doc |-> doc]) :
              b \in { Bytes(0), Bytes(500) }, doc \in UnitPdfDocs }
    \cup { UnitCall("parse_text_response", join_lines(lines)) :
              lines \in SeqsUpTo(ReplyLines, MaxReplyLines) }

\* the module global client holds a client only if the key is set
UnitInit ==
    /\ InitPipeline
    /\ workers = <<>>
    /\ unit \in UnitCalls
    /\ unit.fn # "summarize_with_openai" => ~OPENAI_KEY

UnitDone(out) == unit' = [unit EXCEPT !.done = TRUE, !.out = out]

pipeline_vars ==
    <<query, pc, search_results, i, sources, skipped_sources, attempt, fetched,
      content_text, synth, ret, outcome, hist>>

Call_max_content_per_source ==
    /\ unit.fn = "max_content_per_source" /\ ~unit.done
    /\ UnitDone(max_content_per_source(unit.arg))
    /\ UNCHANGED <<OPENAI_KEY, client, rows, last_id, workers, pipeline_vars>>

Call_is_valid_url ==
    /\ unit.fn = "is_valid_url" /\ ~unit.done
    /\ UnitDone(is_valid_url(unit.arg))
    /\ UNCHANGED <<OPENAI_KEY, client, rows, last_id, workers, pipeline_vars>>

Call_fetch_url ==
    /\ unit.fn = "fetch_url" /\ ~unit.done
    /\ UnitDone(fetch_url(unit.arg.url, unit.arg.resps))
    /\ UNCHANGED <<OPENAI_KEY, client, rows, last_id, workers, pipeline_vars>>

Call_summarize_with_openai ==
    /\ unit.fn = "summarize_with_openai" /\ ~unit.done
    /\ LET s == summarize_with_openai(unit.arg.sources, query, client, OPENAI_KEY,
                                       unit.arg.env)
       IN /\ client' = s.client
          /\ UnitDone([result |-> s.result,
                       model |-> model_seen(
                           get_openai_client(client, OPENAI_KEY,
                                             unit.arg.env.construct_ok).handle,
                           unit.arg.env)])
    /\ UNCHANGED <<OPENAI_KEY, rows, last_id, workers, pipeline_vars>>

Call_extract_text_from_html ==
    /\ unit.fn = "extract_text_from_html" /\ ~unit.done
    /\ UnitDone(extract_text_from_html(unit.arg.html_bytes, unit.arg.env))
    /\ UNCHANGED <<OPENAI_KEY, client, rows, last_id, workers, pipeline_vars>>

Call_extract_text_from_pdf_bytes ==
    /\ unit.fn = "extract_text_from_pdf_bytes" /\ ~unit.done
    /\ UnitDone([text |-> extract_text_from_pdf_bytes(unit.arg.pdf_bytes, unit.arg.doc),
                 pages_read |-> pdf_pages_attempted(unit.arg.pdf_bytes, unit.arg.doc)])
    /\ UNCHANGED <<OPENAI_KEY, client, rows, last_id, workers, pipeline_vars>>

Call_parse_text_response ==
    /\ unit.fn = "parse_text_response" /\ ~unit.done
    /\ UnitDone(parse_text_response(unit.arg, query))
    /\ UNCHANGED <<OPENAI_KEY, client, rows, last_id, workers, pipeline_vars>>

UnitNext ==
    \/ Call_max_content_per_source
    \/ Call_is_valid_url
    \/ Call_fetch_url
    \/ Call_summarize_with_openai
    \/ Call_extract_text_from_html
    \/ Call_extract_text_from_pdf_bytes
    \/ Call_parse_text_response

UnitSpec == UnitInit /\ [][UnitNext]_vars

(***************************************************************************)
(* The web layer: main.submit_query hands every query to a worker thread   *)
(* (run_in_executor), so calls of run_agent_for_query overlap.  A worker   *)
(* shares the module global agent.client and the table reports with the    *)
(* others; search and collection touch nothing shared and are one step.    *)
(***************************************************************************)
\* worker threads busy at once
MaxThreads == 2

Threads == 1..MaxThreads

Queued == [pc |-> "queued", sources |-> <<>>, handle |-> "None", outcome |-> <<>>]

ConcurrentInit ==
    /\ InitPipeline
    /\ unit = NoUnit
    /\ workers = [t \in Threads |-> Queued]

\* agent.py lines 153-245 in worker t: the search and the collector loop end
\* the run, or leave accepted sources
W_Collect(t) ==
    /\ workers[t].pc = "queued"
    /\ \E srcs \in SeqsUpTo(UnitSources, 2) :
         IF no_sources(srcs)
           THEN workers' = [workers EXCEPT ![t].pc = "done",
                                           ![t].outcome = outcome_no_content(<<>>)]
           ELSE workers' = [workers EXCEPT ![t].pc = "get_client", ![t].sources = srcs]
    /\ UNCHANGED <<OPENAI_KEY, client, rows, last_id, unit, pipeline_vars>>

\* agent.py line 14 in worker t: the test "client is None and OPENAI_KEY";
\* when it fails, line 22 returns what the global holds
W_ClientTest(t) ==
    /\ workers[t].pc = "get_client"
    /\ IF client = "None" /\ OPENAI_KEY
         THEN workers' = [workers EXCEPT ![t].pc = "construct"]
         ELSE workers' = [workers EXCEPT ![t].pc = "call",
                            ![t].handle = IF client # "False" THEN client ELSE "None"]
    /\ UNCHANGED <<OPENAI_KEY, client, rows, last_id, unit, pipeline_vars>>

\* agent.py lines 15-22 in worker t: build the client, assign the global,
\* return it
W_ClientSet(t) ==
    /\ workers[t].pc = "construct"
    /\ \E construct_ok \in BOOLEAN :
         LET c == get_openai_client("None", OPENAI_KEY, construct_ok) IN
         /\ client' = c.client
         /\ workers' = [workers EXCEPT ![t].pc = "call", ![t].handle = c.handle]
    /\ UNCHANGED <<OPENAI_KEY, rows, last_id, unit, pipeline_vars>>

\* agent.py lines 31-88 and 250-251 in worker t: the report is made
W_Call(t) ==
    /\ workers[t].pc = "call"
    /\ \E env \in ModelEnvs :
         LET r == IF workers[t].handle = "None"
                    THEN SynthReturn(create_fallback_summary(workers[t].sources, query),
                                     "fallback")
                    ELSE summarize_try(workers[t].sources, query, env)
         IN IF r.raised
              THEN workers' = [workers EXCEPT ![t].pc = "done",
                                 ![t].outcome =
                                    outcome_summarize_failed(r.exc, workers[t].sources, <<>>)]
              ELSE workers' = [workers EXCEPT ![t].pc = "save"]
    /\ UNCHANGED <<OPENAI_KEY, client, rows, last_id, unit, pipeline_vars>>

\* agent.py lines 262-289 in worker t; the INSERT and its commit are one
\* transaction of the store
W_Save(t) ==
    /\ workers[t].pc = "save"
    /\ \E store_ok \in BOOLEAN :
         LET saved == save_report(rows, last_id, store_ok) IN
         /\ rows' = saved.rows
         /\ last_id' = saved.last_id
         /\ workers' = [workers EXCEPT ![t].pc = "done",
                            ![t].outcome =
                               outcome_saved(saved.report_id, workers[t].sources, <<>>)]
    /\ UNCHANGED <<OPENAI_KEY, client, unit, pipeline_vars>>

ConcurrentNext ==
    \E t \in Threads :
      \/ W_Collect(t)
      \/ W_ClientTest(t)
      \/ W_ClientSet(t)
      \/ W_Call(t)
      \/ W_Save(t)

ConcurrentSpec == ConcurrentInit /\ [][ConcurrentNext]_vars

(***************************************************************************)
(* Properties                                                              *)
(***************************************************************************)
\* how often the pair (url, title) occurs in a list of sources or skips
Recorded(seq, url, title) ==
    Cardinality({ k \in 1..Len(seq) : seq[k].url = url /\ seq[k].title = title })

\* how often the pair (link, title) occurs among the search results
Listed(link, title) ==
    Cardinality({ k \in 1..Len(search_results) :
                    search_results[k].link = link /\ search_results[k].title = title })

HasReason(prefix) ==
    \E k \in 1..Len(skipped_sources) : str_startswith(skipped_sources[k].reason, <<prefix>>)

\* C1: when the collector loop has ended, the accepted and the skipped list
\* together hold as many entries as there are search results, and every
\* result is recorded in them exactly as often as it was listed.
C1_EveryResultRecordedOnce ==
    hist.loop_done =>
      /\ Len(sources) + Len(skipped_sources) = Len(search_results)
      /\ \A k \in 1..Len(search_results) :
            LET r == search_results[k] IN
            Recorded(sources, r.link, r.title) + Recorded(skipped_sources, r.link, r.title)
              = Listed(r.link, r.title)

\* C1 witness: a loop over three results that ended with one accepted, one
\* blocked and one that raised while it was processed
C1_Witness ==
    /\ hist.loop_done
    /\ Len(search_results) = 3
    /\ Len(sources) = 1
    /\ HasReason("Blocked domain")
    /\ HasReason("Processing error: ")

\* C2: a save that failed inside the store gives a failure outcome (no
\* success, no report_id, an error), and a success outcome names a stored row.
C2_SaveFailureIsReported ==
    ret = "returned" =>
      /\ hist.save_failed =>
            /\ ~outcome.success
            /\ outcome.report_id.none
            /\ "error" \in DOMAIN outcome
      /\ outcome.success =>
            /\ ~outcome.report_id.none
            /\ outcome.report_id.id \in rows

\* C3: no exception reaches the caller of run_agent_for_query.
C3_NoExceptionReachesCaller == ret # "raised"

\* C4: an exception raised while result k is processed (URL gate, fetch,
\* extraction) leaves a "Processing error: ..." skip for result k, and the
\* loop goes on to its end.
C4_BadSourceNeverAbortsBatch ==
    \A e \in hist.raised_at :
      e.step \in { "gate", "fetch", "extract" } =>
        /\ ret # "raised"
        /\ \E j \in 1..Len(skipped_sources) :
             /\ skipped_sources[j].url = search_results[e.index].link
             /\ skipped_sources[j].title = search_results[e.index].title
             /\ str_startswith(skipped_sources[j].reason, <<"Processing error: ">>)
        /\ pc = "done" => hist.loop_done

\* C5: what fetch_url returns holds either bytes and no error, or an error
\* (a non-empty string) and no bytes.
C5_BytesXorError ==
    pc = "fetched" =>
      /\ fetched.content.none # fetched.error.none
      /\ ~fetched.error.none => fetched.error.s # ""

\* C5 witness: bytes returned by the third attempt
C5_Witness ==
    /\ pc = "fetched"
    /\ ~fetched.content.none
    /\ fetched.content.len > 0
    /\ Len(hist.gets) = 3

\* C6: a call of fetch_url makes at most 3 GET attempts; an attempt that
\* does not end in a timeout or a connection failure is the last one; every
\* further attempt follows exactly one pause.
C6_RetryOnlyTransient ==
    /\ Len(hist.gets) <= 3
    /\ \A k \in 1..Len(hist.gets) :
          hist.gets[k] \notin { "timeout", "connection_error" } =>
            k = Len(hist.gets) /\ pc = "fetched"
    /\ pc = "get" => hist.sleeps = Len(hist.gets) /\ attempt = Len(hist.gets)
    /\ pc = "fetched" /\ hist.gets # <<>> => hist.sleeps = Len(hist.gets) - 1

\* C6 witness: two transient failures, then an HTTP status error ends the call
C6_Witness ==
    /\ pc = "fetched"
    /\ hist.gets = <<"timeout", "connection_error", "http_error">>
    /\ fetched.error = Str("HTTP error: 404")

\* C7: an empty search answer ends the run with the failure outcome "No
\* search results found" and without any fetch, extraction, synthesis or save.
C7_NoResultsStopsRun ==
    hist.search_status = "empty" =>
      /\ ret = "returned"
      /\ outcome = [success |-> FALSE, error |-> "No search results found",
                    report_id |-> NoneId]
      /\ hist.fetch_url = 0 /\ hist.gets = <<>> /\ hist.extract = 0
      /\ hist.summarize = 0 /\ ~synth.called
      /\ hist.save = 0 /\ rows = {}

\* C7 witness: the search answered with no usable result
C7_Witness == hist.search_status = "empty" /\ pc = "done"

\* C8: a collector loop that ended with no accepted source gives a failure
\* outcome carrying one skip per search result, in order, and neither the
\* synthesizer nor the store is called.
C8_NoSourcesStopsRun ==
    hist.loop_done /\ sources = <<>> =>
      /\ ret = "returned"
      /\ ~outcome.success
      /\ "skipped_sources" \in DOMAIN outcome
      /\ outcome.skipped_sources = skipped_sources
      /\ Len(outcome.skipped_sources) = Len(search_results)
      /\ \A k \in 1..Len(search_results) :
            /\ outcome.skipped_sources[k].url = search_results[k].link
            /\ outcome.skipped_sources[k].title = search_results[k].title
      /\ hist.summarize = 0 /\ ~synth.called
      /\ hist.save = 0 /\ rows = {}

\* C8 witness: three results, all skipped, one of them for too little text
C8_Witness ==
    /\ hist.loop_done
    /\ sources = <<>>
    /\ Len(search_results) = 3
    /\ HasReason("Insufficient content extracted")
    /\ HasReason("Fetch error: ")

OutcomeKeys == DOMAIN outcome

\* C9 as stated: every outcome is a success with report_id and no error, or
\* a failure with error and no report_id, and always carries sources_found,
\* skipped_sources and the processing time.
C9_FullyFilled ==
    ret = "returned" =>
      /\ { "sources_found", "skipped_sources", "processing_time" } \subseteq OutcomeKeys
      /\ \/ outcome.success /\ ~outcome.report_id.none /\ "error" \notin OutcomeKeys
         \/ ~outcome.success /\ "error" \in OutcomeKeys /\ outcome.report_id.none

\* C9 amended: every outcome is a success with report_id, sources_found,
\* skipped_sources and processing time and no error, or a failure with a
\* non-empty error and no report_id; a failure never carries the processing
\* time, carries skipped_sources exactly when the collector loop had ended,
\* and carries sources_found exactly when the synthesizer had been called.
C9_DisjointShapes ==
    ret = "returned" =>
      \/ /\ outcome.success
         /\ OutcomeKeys = { "success", "report_id", "sources_found", "skipped_sources",
                            "processing_time" }
         /\ ~outcome.report_id.none
      \/ /\ ~outcome.success
         /\ { "success", "report_id", "error" } \subseteq OutcomeKeys
         /\ outcome.error # ""
         /\ outcome.report_id.none
         /\ "processing_time" \notin OutcomeKeys
         /\ "skipped_sources" \in OutcomeKeys <=> hist.loop_done
         /\ "sources_found" \in OutcomeKeys <=> hist.summarize > 0

\* C9 witness: a failure outcome that carries the skipped list and nothing
\* else beyond success, error and report_id
C9_Witness ==
    /\ ret = "returned"
    /\ OutcomeKeys = { "success", "error", "skipped_sources", "report_id" }
    /\ Len(outcome.skipped_sources) = 2

\* C10: summarize_with_openai never raises; whatever the model service does,
\* it returns a report built by one of its three paths.
C10_SynthesizerNeverRaises ==
    synth.called =>
      /\ ~synth.raised
      /\ synth.path \in { "fallback", "json", "text" }
      /\ DOMAIN synth.report =
           { "title", "summary", "key_points", "references", "raw_prompt_response" }
      /\ synth.report # NoReport

\* C10 witness: a client was built, the call went wrong, and the fallback
\* report came back
C10_Witness ==
    /\ synth.called
    /\ client = "Client"
    /\ synth.path = "fallback"
    /\ Len(sources) = 2

\* a field of a report holds something: a non-empty string or list
Populated(v) == v.type \in { "str", "list" } /\ v.len > 0

\* C11: every report summarize_with_openai returns has title, summary,
\* key_points and references populated (non-empty), whichever path built it.
C11_AllFieldsPopulated ==
    synth.called /\ ~synth.raised =>
      \A f \in AllFields : Populated(synth.report[f])

\* C12 (direct calls of summarize_with_openai): when no client can be had or
\* the model call raises, the report is the offline fallback: one reference
\* per source, in source order, with the title cut to 60 characters plus the
\* ellipsis when longer, and between 1 and 5 key points.
C12_FallbackShape ==
    unit.fn = "summarize_with_openai" /\ unit.done
      /\ unit.out.model.status \in { "unavailable", "raised" } =>
        LET srcs == unit.arg.sources
            report == unit.out.result.report
        IN /\ ~unit.out.result.raised
           /\ unit.out.result.path = "fallback"
           /\ report.raw_prompt_response = JStr(<<"Fallback summary generated without OpenAI">>)
           /\ report.references.type = "list"
           /\ report.references.len = Len(srcs)
           /\ \A k \in 1..Len(srcs) :
                 LET ref == report.references.items[k] IN
                 /\ ref.url = srcs[k].url
                 /\ IF srcs[k].title.len > 60 THEN ref.note.len = 63
                    ELSE ref.note = srcs[k].title
           /\ report.key_points.type = "list"
           /\ report.key_points.len <= 5

\* C12 witness: the call raised with a client at hand; three sources, the
\* first with a title of 61 characters, the last with one of 60
C12_Witness ==
    /\ unit.fn = "summarize_with_openai" /\ unit.done
    /\ unit.out.model.status = "raised"
    /\ client = "Client"
    /\ Len(unit.arg.sources) = 3
    /\ unit.arg.sources[1].title.len = 61
    /\ unit.arg.sources[3].title.len = 60
    /\ unit.out.result.report.references.len = 3

\* C13: a reply of the model (message.content is a string) gives the reply's
\* own four fields exactly when it parses as JSON and holds all four
\* required fields; every other reply is handed to parse_text_response and
\* never answered with the offline fallback.
C13_ReplyRouting ==
    synth.called /\ synth.model.status = "replied" /\ ~synth.model.reply.content_none =>
      LET json == synth.model.reply.json
          complete == json.kind # "invalid" /\ AllFields \subseteq json.has
      IN /\ complete =>
              /\ synth.path = "json"
              /\ \A f \in AllFields : synth.report[f] = json.obj[f]
         /\ ~complete =>
              /\ synth.path = "text"
              /\ synth.report =
                   parse_text_response(toks_strip(synth.model.reply.content), query)

\* C14 (direct calls of max_content_per_source): for every source count
\* n >= 1 the budget b of one source satisfies b <= 3000 and b * n <= 12000.
C14_BudgetWithinPrompt ==
    unit.fn = "max_content_per_source" /\ unit.done /\ unit.arg >= 1 =>
      /\ unit.out <= 3000
      /\ unit.out * unit.arg <= 12000

\* C14 witness: seven sources, where 12000 is not a multiple of the count
C14_Witness ==
    /\ unit.fn = "max_content_per_source" /\ unit.done
    /\ unit.arg = 7
    /\ unit.out = 1714

\* the URL is empty or does not begin with the token http:// or https://
LacksHttpScheme(url) == url = <<>> \/ Head(url) \notin { "http://", "https://" }

\* C17 (direct calls of fetch_url): a URL that is empty or does not start
\* with http:// or https:// is answered with the error "Invalid URL format"
\* and no GET request is made.
C17_InvalidUrlNoRequest ==
    unit.fn = "fetch_url" /\ unit.done /\ LacksHttpScheme(unit.arg.url) =>
      /\ unit.out.result = FetchError("Invalid URL format")
      /\ unit.out.gets = 0
      /\ unit.out.read = 0

\* C17 witness: a URL whose scheme is not http(s), the server ready to answer
C17_Witness ==
    /\ unit.fn = "fetch_url" /\ unit.done
    /\ unit.arg.url = <<"ftp://", "example", ".org">>
    /\ unit.arg.resps[1].kind = "ok"
    /\ unit.out.gets = 0

\* the response that ended a call of fetch_url that made a GET
LastResponse == unit.arg.resps[unit.out.gets]

RECURSIVE SumSizes(_)
SumSizes(chunks) == IF chunks = <<>> THEN 0 ELSE Head(chunks) + SumSizes(Tail(chunks))

\* C18 (direct calls of fetch_url): a returned body is never longer than
\* 50 MiB; a declared Content-Length above the ceiling is rejected before any
\* chunk is read; a body that grows past the ceiling while streaming ends the
\* download at the chunk that crossed it; the two rejections differ.
C18_ByteCeiling ==
    unit.fn = "fetch_url" /\ unit.done /\ unit.out.gets > 0 =>
      /\ ~unit.out.result.content.none => unit.out.result.content.len <= 50 * 1024 * 1024
      /\ LastResponse.kind = "ok" /\ LastResponse.content_length.kind # "garbage" =>
           IF LastResponse.content_length.n > 50 * 1024 * 1024
             THEN /\ unit.out.result = FetchError("Content too large (>50MB)")
                  /\ unit.out.read = 0
           ELSE IF SumSizes(LastResponse.chunks) > 50 * 1024 * 1024
             THEN /\ unit.out.result = FetchError("Content too large during download")
                  /\ unit.out.read >= 1
                  /\ SumSizes(SubSeq(LastResponse.chunks, 1, unit.out.read)) > 50 * 1024 * 1024
                  /\ SumSizes(SubSeq(LastResponse.chunks, 1, unit.out.read - 1))
                       <= 50 * 1024 * 1024
           ELSE /\ unit.out.result.content = Bytes(SumSizes(LastResponse.chunks))
                /\ unit.out.read = Len(LastResponse.chunks)
      /\ "Content too large (>50MB)" # "Content too large during download"

\* C18 witness: the header declares too much on the third attempt, the body
\* waiting with three chunks of which none is read
C18_Witness ==
    /\ unit.fn = "fetch_url" /\ unit.done
    /\ unit.out.gets = 3
    /\ LastResponse.kind = "ok"
    /\ LastResponse.content_length.n > MaxBytes
    /\ Len(LastResponse.chunks) = 3
    /\ unit.out.read = 0

\* a denylisted domain or extension occurs in the lowercased URL
Denylisted(url) ==
    \E bad \in blocked_domains \cup blocked_extensions : str_contains(str_lower(url), bad)

\* C19 (direct calls of is_valid_url): the gate answers false for every URL
\* whose lowercased form contains a denylisted domain or extension, and true
\* for every other URL string.
C19_GateIsDenylist ==
    unit.fn = "is_valid_url" /\ unit.done => (unit.out <=> ~Denylisted(unit.arg.toks))

\* C19 witness: an upper-case extension in the middle of the URL is turned away
C19_Witness ==
    /\ unit.fn = "is_valid_url" /\ unit.done
    /\ unit.arg.toks = <<"https://", ".PNG", "/a">>
    /\ ~unit.out

\* C15: every accepted source holds content that passes the Content
\* Validator (validate_extracted_content with min_length 100) and is at
\* most 30,000 characters long.
C15_SourcesAreValidated ==
    \A k \in 1..Len(sources) :
      /\ validate_extracted_content(sources[k].content, 100)
      /\ sources[k].content.len <= 30000

\* worker t has returned a success outcome
Succeeded(t) == workers[t].pc = "done" /\ workers[t].outcome.success

\* C16 (overlapping runs): any two runs that returned success carry
\* different report ids.
C16_UniqueReportIds ==
    \A t1 \in Threads, t2 \in Threads :
      t1 # t2 /\ Succeeded(t1) /\ Succeeded(t2) =>
        workers[t1].outcome.report_id # workers[t2].outcome.report_id

\* the stage of the pipeline a position of the call belongs to
Stage(p) ==
    CASE p = "search" -> 1
      [] p \in { "loop", "fetch", "get", "fetched", "extract", "accept" } -> 2
      [] p = "summarize" -> 3
      [] p = "save" -> 4
      [] OTHER -> 5

\* the calls made so far fit the stage the run is in
StagesInOrder ==
    /\ hist.search = (IF pc = "search" THEN 0 ELSE 1)
    /\ hist.summarize <= 1
    /\ hist.summarize = (IF synth.called THEN 1 ELSE 0)
    /\ synth.called =>
         /\ Stage(pc) > 3
         /\ i = Len(search_results)
         /\ sources # <<>>
    /\ hist.save <= 1
    /\ hist.save = 1 =>
         /\ pc = "done"
         /\ synth.called /\ ~synth.raised /\ synth.report # NoReport

\* a step never goes back to an earlier stage, and calls its collaborators
\* only in the stage they belong to
StageStep ==
    /\ Stage(pc') >= Stage(pc)
    /\ hist'.search # hist.search => Stage(pc) = 1
    /\ (hist'.fetch_url # hist.fetch_url \/ hist'.extract # hist.extract
          \/ sources' # sources \/ skipped_sources' # skipped_sources) => Stage(pc) = 2
    /\ hist'.summarize # hist.summarize => Stage(pc) = 3
    /\ hist'.save # hist.save => Stage(pc) = 4

\* C20: the stages run one way and at most once: the search exactly once,
\* the synthesizer at most once and only after the collector loop has gone
\* through every result and accepted at least one, the save at most once and
\* only after the synthesizer returned a report, and no step re-enters a
\* stage once a later one has begun.
C20_StagesOneWay == []StagesInOrder /\ [][StageStep]_vars

\* C20 witness: a run that went through all four stages
C20_Witness ==
    /\ pc = "done"
    /\ ret = "returned"
    /\ outcome.success
    /\ hist.search = 1 /\ hist.summarize = 1 /\ hist.save = 1
    /\ hist.fetch_url = 3
    /\ Len(sources) = 2

\* seq (sources or skips) is a subsequence of the results res, in their order
RECURSIVE Embeds(_, _)
Embeds(seq, res) ==
    IF seq = <<>> THEN TRUE
    ELSE IF res = <<>> THEN FALSE
    ELSE IF Head(seq).url = Head(res).link /\ Head(seq).title = Head(res).title
      THEN Embeds(Tail(seq), Tail(res))
    ELSE Embeds(seq, Tail(res))

InCollector == pc \in { "fetch", "get", "fetched", "extract", "accept" }

\* the collector stands at one result: the results before it are recorded,
\* it passed the gate if it is being fetched, its fetch gave no error if it
\* is being extracted
OneAtATime ==
    /\ InCollector =>
         /\ i >= 1
         /\ ~Denylisted(result.link.toks)
         /\ Len(sources) + Len(skipped_sources) = i - 1
    /\ pc = "loop" => Len(sources) + Len(skipped_sources) = i
    /\ pc \in { "extract", "accept" } => hist.extract <= hist.fetch_url
    /\ pc = "extract" => fetched.error.none /\ ~fetched.content.none
    /\ hist.fetch_url <= i /\ hist.extract <= hist.fetch_url
    /\ Embeds(sources, PySlice(search_results, i))
    /\ Embeds(skipped_sources, PySlice(search_results, i))

\* seq2 is seq1 with one entry for the result at index k added at its end
AppendedFor(seq1, seq2, k) ==
    /\ Len(seq2) = Len(seq1) + 1
    /\ SubSeq(seq2, 1, Len(seq1)) = seq1
    /\ seq2[Len(seq2)].url = search_results[k].link
    /\ seq2[Len(seq2)].title = search_results[k].title

\* a step of the collector: the index moves by one at most, a fetch begins
\* only for the current result and only past the gate, an extractor is
\* called only on what a fetch returned without error, and the lists grow
\* at their end by the current result
InOrderStep ==
    /\ i' \in { i, i + 1 }
    /\ i' = i + 1 => pc = "loop"
    /\ hist'.fetch_url # hist.fetch_url =>
         /\ pc = "fetch" /\ hist'.fetch_url = hist.fetch_url + 1
         /\ ~Denylisted(result.link.toks)
    /\ hist'.extract # hist.extract =>
         /\ pc = "extract" /\ fetched.error.none /\ ~fetched.content.none
    /\ sources' # sources => AppendedFor(sources, sources', i') /\ i' = i
    /\ skipped_sources' # skipped_sources =>
         AppendedFor(skipped_sources, skipped_sources', i')

\* C21: the collector handles the results one at a time in result order: the
\* URL gate comes before any fetch, a URL the gate rejects is never fetched,
\* a result whose fetch gave an error is never handed to an extractor, and
\* the accepted list and the skipped list are subsequences of the results.
C21_OneAtATimeInOrder == []OneAtATime /\ [][InOrderStep]_vars

\* C21 witness: three results gone through: one blocked by the gate, one
\* skipped for its fetch error, one fetched, extracted and accepted
C21_Witness ==
    /\ hist.loop_done
    /\ Len(search_results) = 3
    /\ HasReason("Blocked domain") /\ HasReason("Fetch error: ")
    /\ Len(sources) = 1
    /\ hist.fetch_url = 2 /\ hist.extract = 1

\* the last skip is for the current result, for too little text
SkippedAsInsufficient ==
    /\ AppendedFor(skipped_sources, skipped_sources', i)
    /\ skipped_sources'[Len(skipped_sources')].reason = <<"Insufficient content extracted">>
    /\ sources' = sources

\* the current result became a source holding the text, cut to 30,000
AcceptedAsSource ==
    /\ AppendedFor(sources, sources', i)
    /\ sources'[Len(sources')].content = str_cut(content_text, 30000)
    /\ skipped_sources' = skipped_sources

\* C22: a result that was fetched without error is skipped as "Insufficient
\* content extracted" exactly when the trimmed length of its text is below
\* 100, and becomes a source otherwise, a text of exactly 100 included.
C22_AcceptedFrom100 ==
    [][pc = "accept" =>
         IF content_text.strip < 100 THEN SkippedAsInsufficient ELSE AcceptedAsSource]_vars

\* what a strategy of extract_text_from_html yields: the trimmed length of
\* its text, nothing when it raises or hands back None
Yield(o) == IF o.raises \/ o.text.none THEN 0 ELSE o.text.strip

\* C23: extract_text_from_html tries primary extraction, re-fetch by URL and
\* tag-stripping in this order, moving on only when the one before did not
\* yield 100 characters, and returns the empty string only if each of the
\* three yields under 100 characters, an exception in one of them included.
C23_StrategiesInOrder ==
    (unit.fn = "extract_text_from_html" /\ unit.done /\ unit.arg.html_bytes.len > 0) =>
        LET env == unit.arg.env
            p == Yield(env.primary)
            r == Yield(env.refetch)
            s == env.stripped.len
        IN /\ unit.out.len = 0 => (p < 100 /\ r < 100 /\ s < 100)
           /\ unit.out.len > 0 =>
                 unit.out = IF p >= 100 THEN str_strip(env.primary.text)
                            ELSE IF r >= 100 THEN str_strip(env.refetch.text)
                            ELSE env.stripped

\* a page that gives text other than whitespace
HasText(page) == page.kind = "text" /\ page.len > 0

\* C24: extract_text_from_pdf_bytes calls the extraction on exactly the first
\* min(10, page count) pages, in page order, and on no later page; a page
\* that raises adds no text and the pages after it are still read; without
\* pages, or for a document that does not parse, the result is empty.
C24_FirstTenPages ==
    (unit.fn = "extract_text_from_pdf_bytes" /\ unit.done) =>
        LET doc == unit.arg.doc
            n == Len(doc.pages)
            m == IF n < 10 THEN n ELSE 10
        IN /\ (~doc.parses \/ n = 0) =>
                 unit.out.text.len = 0 /\ unit.out.pages_read = <<>>
           /\ (unit.arg.pdf_bytes.len > 0 /\ doc.parses /\ n > 0) =>
                 /\ unit.out.pages_read = [k \in 1..m |-> k - 1]
                 /\ unit.out.text =
                      pdf_join_clean(SelectSeq(SubSeq(doc.pages, 1, m), HasText))

\* C24 witness: a document of more than ten pages whose page 4 raises: ten
\* pages are read and the nine others give the text
C24_Witness ==
    /\ unit.fn = "extract_text_from_pdf_bytes" /\ unit.done
    /\ Len(unit.arg.doc.pages) > 10
    /\ unit.arg.doc.pages[4].kind = "raises"
    /\ Len(unit.out.pages_read) = 10
    /\ unit.out.text.len = 9 * 20 + 8

\* a line prefixed with "-" or with the bullet character
IsBullet(line) ==
    str_startswith(line, <<"-">>) \/ str_startswith(line, <<BulletChar>>)

\* the lists as C25 describes them: under an open "Key points:" or
\* "References:" section a bullet line is appended whatever its text; every
\* other line is read as parse_text_response reads it
BulletsKept(st, raw_line) ==
    LET line == toks_strip(raw_line)
        text == str_lstrip(line, {"-", BulletChar, " "})
    IN IF IsBullet(line) /\ st.current_section = "key_points"
         THEN [st EXCEPT !.key_points = Append(st.key_points, text)]
       ELSE IF IsBullet(line) /\ st.current_section = "references"
         THEN [st EXCEPT !.references =
                 Append(st.references, [url |-> JStr(<<"N/A">>), note |-> JStr(text)])]
       ELSE parse_line(st, raw_line)

RECURSIVE AllBulletsKept(_, _)
AllBulletsKept(st, lines) ==
    IF lines = <<>> THEN st ELSE AllBulletsKept(BulletsKept(st, Head(lines)), Tail(lines))

\* C25: once a "Key points:" (or "References:") header has been seen, every
\* later bullet line up to the next section header is appended, in order, to
\* key_points (or references), whatever its text; without a summary or
\* without a key point, the placeholder is returned in its place.
C25_BulletsAppended ==
    (unit.fn = "parse_text_response" /\ unit.done) =>
        LET st == AllBulletsKept([title |-> <<>>, summary |-> <<>>, key_points |-> <<>>,
                                  references |-> <<>>, current_section |-> "None"],
                                 str_split_lines(unit.arg, <<>>))
        IN /\ unit.out.key_points =
                JList(IF st.key_points # <<>> THEN st.key_points
                      ELSE << <<"No key points extracted from response">> >>)
           /\ unit.out.references = JList(st.references)
           /\ unit.out.summary.toks # <<>>
           /\ ~str_contains(str_lower(unit.arg), <<"summary:">>) =>
                 unit.out.summary = JStr(<<"Summary not available from parsed response">>)

\* fetch_url issues at most max_retries + 1 GETs in one call and is called
\* at most once for a result, the index never passing the end of the list
GetsBounded ==
    /\ Len(hist.gets) <= max_retries + 1
    /\ hist.fetch_url <= i
    /\ i <= Len(search_results)

\* the fetch of the current result ended with its last attempt timing out
\* or failing to connect
RetriesExhausted ==
    /\ pc = "fetched"
    /\ Len(hist.gets) = max_retries + 1
    /\ is_transient(hist.gets[Len(hist.gets)])

\* a result whose retries are exhausted is skipped and the loop goes on
ExhaustedIsSkipped ==
    RetriesExhausted =>
        /\ AppendedFor(skipped_sources, skipped_sources', i)
        /\ str_startswith(skipped_sources'[Len(skipped_sources')].reason, <<"Fetch error: ">>)
        /\ sources' = sources
        /\ pc' = "loop"

\* C26: with every network call returning or timing out, every run of
\* run_agent_for_query ends, and ends with an outcome: each result is visited
\* once, fetch_url issues at most 3 GETs for each result (3 times the number
\* of results in all), and a result whose retries are exhausted is skipped
\* while the run goes on with the next result.
C26_TerminatesWithOutcome ==
    /\ <>(pc = "done")
    /\ [](pc = "done" => ret = "returned")
    /\ []GetsBounded
    /\ [][ExhaustedIsSkipped]_vars

\* worker t runs lines 15-21 of get_openai_client: a client is constructed
ConstructionStep(t) == workers[t].pc = "construct" /\ workers'[t].pc = "call"

\* worker t leaves get_openai_client with the handle h
ReturnsHandle(t, h) ==
    (workers[t].pc \in { "get_client", "construct" } /\ workers'[t].pc = "call") =>
        workers'[t].handle = h

\* C27: the client handle is a lazy singleton with sticky failure: without a
\* key no construction is attempted and every caller gets None; once a
\* construction has failed the handle stays marked failed, no construction is
\* attempted again and every later caller gets None (the offline fallback);
\* once a construction has succeeded no other client is constructed and
\* every later caller gets that client.
C27_LazySingleton ==
    /\ [](~OPENAI_KEY =>
            /\ client = "None"
            /\ \A t \in Threads : workers[t].pc # "construct" /\ workers[t].handle = "None")
    /\ [][client = "False" =>
            /\ client' = "False"
            /\ \A t \in Threads : ~ConstructionStep(t) /\ ReturnsHandle(t, "None")]_vars
    /\ [][client = "Client" =>
            /\ client' = "Client"
            /\ \A t \in Threads : ~ConstructionStep(t) /\ ReturnsHandle(t, "Client")]_vars

====
